---- MODULE Spec2Model ----
(***************************************************************************)
(* Chapter01/adder: pub fn add(left: u64, right: u64) -> u64 { left + right }*)
(*                                                                         *)
(* A u64 is modelled at its real width of 64 bits, as a sequence of limbs  *)
(* (least significant first), and `+` as the adder that produces the sum   *)
(* limbs and a carry out of the top limb.  Rust defines the result of an   *)
(* overflowing `+` by the build: with overflow checks (the debug and test  *)
(* profiles) the call panics, without them (the release profile) the carry *)
(* is dropped and the low 64 bits are returned.                            *)
(***************************************************************************)
EXTENDS Integers, Sequences, FiniteSets

\* Width of the operand and result type, u64.
Bits == 64

\* Operands are drawn within this distance of 0, of 2^63 and of u64::MAX.
Near == 2

\* The concurrent callers' operands are drawn within this distance of 0 and
\* of u64::MAX.
CallerNear == 0

\* Number of concurrent callers of add.
NumCallers == 2

VARIABLES
    overflow_checks,  \* the build's overflow-checks setting
    x, y, z,          \* the three u64 inputs of the sequential caller
    got,              \* outcome of each call the sequential caller makes
    it_works,         \* outcome of the unit test tests::it_works
    pc,               \* per concurrent caller: "idle", "called" or "done"
    left, right,      \* per concurrent caller: the arguments of its call
    result            \* per concurrent caller: the outcome of its call

vars == <<overflow_checks, x, y, z, got, it_works, pc, left, right, result>>

seq_vars == <<x, y, z, got, it_works>>

conc_vars == <<pc, left, right, result>>

----------------------------------------------------------------------------
\* u64 values

\* A limb holds LimbBits bits, a u64 is Limbs limbs.
LimbBits == Bits \div 4

Limbs == Bits \div LimbBits

Base == 2^LimbBits

U64 == [1..Limbs -> 0..(Base - 1)]

\* u64::MIN
Zero == [i \in 1..Limbs |-> 0]

\* u64::MAX = 2^64 - 1
MAX == [i \in 1..Limbs |-> Base - 1]

\* The u64 of value k, for 0 <= k < Base.
FromNat(k) == [i \in 1..Limbs |-> IF i = 1 THEN k ELSE 0]

\* The u64 of value u64::MAX - k, for 0 <= k < Base.
BelowMax(k) == [i \in 1..Limbs |-> IF i = 1 THEN Base - 1 - k ELSE Base - 1]

\* The u64 of value 2^63 + k, for 0 <= k < Base.
AboveHalf(k) ==
    [i \in 1..Limbs |-> IF i = 1 THEN k
                        ELSE IF i = Limbs THEN Base \div 2 ELSE 0]

\* The u64 of value 2^63 - k, for 1 <= k <= Base.
BelowHalf(k) ==
    [i \in 1..Limbs |-> IF i = 1 THEN Base - k
                        ELSE IF i = Limbs THEN Base \div 2 - 1 ELSE Base - 1]

\* The values within `near` of either end of the u64 range.
Ends(near) == {FromNat(k) : k \in 0..near} \cup {BelowMax(k) : k \in 0..near}

\* The values within `near` of the middle of the u64 range, 2^63.
Middle(near) == {AboveHalf(k) : k \in 0..near} \cup {BelowHalf(k) : k \in 1..near}

----------------------------------------------------------------------------
\* Outcomes of a call

NoValue == <<>>

Returned(v) == [kind |-> "returned", value |-> v]

\* The call unwinds with "attempt to add with overflow" and returns nothing.
Panicked == [kind |-> "panicked", value |-> NoValue]

Pending == [kind |-> "pending", value |-> NoValue]

----------------------------------------------------------------------------
\* left + right on u64

\* The adder's carry into limb i (for i = Limbs + 1, the carry out of the
\* top limb).
RECURSIVE CarryInto(_, _, _)
CarryInto(l, r, i) ==
    IF i = 1
    THEN 0
    ELSE (l[i - 1] + r[i - 1] + CarryInto(l, r, i - 1)) \div Base

\* u64::overflowing_add: the wrapped sum and whether the addition overflowed.
OverflowingAdd(l, r) ==
    [value    |-> [i \in 1..Limbs |-> (l[i] + r[i] + CarryInto(l, r, i)) % Base],
     overflow |-> CarryInto(l, r, Limbs + 1) = 1]

\* Variants of add, each with one fault, against which the properties are
\* tried.

\* Limbs are added without carrying from one to the next.
add_no_carry(l, r) ==
    Returned([i \in 1..Limbs |-> (l[i] + r[i]) % Base])

\* left + right + 1.
add_carry_in(l, r) ==
    LET one == [i \in 1..Limbs |-> IF i = 1 THEN 1 ELSE 0]
        s   == OverflowingAdd(l, r)
        t   == OverflowingAdd(s.value, one)
    IN  IF overflow_checks /\ (s.overflow \/ t.overflow)
        THEN Panicked
        ELSE Returned(t.value)

\* The overflow check is compiled in whatever the build says.
add_always_checked(l, r) ==
    LET s == OverflowingAdd(l, r)
    IN  IF s.overflow THEN Panicked ELSE Returned(s.value)

\* A sum equal to u64::MAX is taken for an overflow.
add_max_is_overflow(l, r) ==
    LET s == OverflowingAdd(l, r)
    IN  IF overflow_checks /\ (s.overflow \/ s.value = [i \in 1..Limbs |-> Base - 1])
        THEN Panicked
        ELSE Returned(s.value)

\* The body is `left`.
add_returns_left(l, r) == Returned(l)

\* The body is `left.saturating_add(right)`.
add_saturating(l, r) ==
    LET s == OverflowingAdd(l, r)
    IN  IF s.overflow
        THEN Returned([i \in 1..Limbs |-> Base - 1])
        ELSE Returned(s.value)

\* The body is `left + left`.
add_left_twice(l, r) ==
    LET s == OverflowingAdd(l, l)
    IN  IF overflow_checks /\ s.overflow
        THEN Panicked
        ELSE Returned(s.value)

\* pub fn add(left: u64, right: u64) -> u64 { left + right }
add(l, r) ==
    LET s == OverflowingAdd(l, r)
    IN  IF overflow_checks /\ s.overflow
        THEN Panicked
        ELSE Returned(s.value)

----------------------------------------------------------------------------
\* The sequential caller: it holds three inputs and makes the calls
\*   add(x, y), add(y, x), add(y, z), add(add(x, y), z), add(x, add(y, z)),
\* each once, an inner call before the call that consumes its result.

Calls == {"xy", "yx", "yz", "xy_z", "x_yz"}

Inputs == Ends(Near) \cup Middle(Near)

\* The outcome whose value a call takes as its left or right argument.
LeftArg(k) ==
    CASE k = "xy"   -> Returned(x)
      [] k = "yx"   -> Returned(y)
      [] k = "yz"   -> Returned(y)
      [] k = "xy_z" -> got["xy"]
      [] k = "x_yz" -> Returned(x)

RightArg(k) ==
    CASE k = "xy"   -> Returned(y)
      [] k = "yx"   -> Returned(x)
      [] k = "yz"   -> Returned(z)
      [] k = "xy_z" -> Returned(z)
      [] k = "x_yz" -> got["yz"]

\* add applied to the results of two evaluated arguments: a panic in an
\* argument unwinds through the caller, and add is not entered.
Apply(l, r) ==
    IF l.kind = "panicked" \/ r.kind = "panicked"
    THEN Panicked
    ELSE add(l.value, r.value)

Call(k) ==
    /\ got[k].kind = "pending"
    /\ LeftArg(k).kind # "pending"
    /\ RightArg(k).kind # "pending"
    /\ got' = [got EXCEPT ![k] = Apply(LeftArg(k), RightArg(k))]
    /\ UNCHANGED <<overflow_checks, x, y, z, it_works, conc_vars>>

\* #[test] fn it_works: Ok(()) if add(2, 2) == 4, else Err("2 + 2 != 4");
\* a panic inside add fails the test by unwinding.
ItWorks ==
    /\ it_works = "not_run"
    /\ it_works' = LET r == add(FromNat(2), FromNat(2))
                   IN  IF r.kind = "panicked" THEN "panicked"
                       ELSE IF r.value = FromNat(4) THEN "Ok" ELSE "Err"
    /\ UNCHANGED <<overflow_checks, x, y, z, got, conc_vars>>

----------------------------------------------------------------------------
\* The concurrent callers: each enters add once with its own arguments and
\* later leaves it with the outcome.

Callers == 1..NumCallers

CallerInputs == Ends(CallerNear)

\* The caller pushes its arguments and enters add.
Enter(c, l, r) ==
    /\ pc[c] = "idle"
    /\ pc' = [pc EXCEPT ![c] = "called"]
    /\ left' = [left EXCEPT ![c] = l]
    /\ right' = [right EXCEPT ![c] = r]
    /\ UNCHANGED <<overflow_checks, seq_vars, result>>

\* Variants of Leave, each with one fault.

\* The arguments are read from a slot all callers share (caller 1's).
Leave_shared_arguments(c) ==
    /\ pc[c] = "called"
    /\ result' = [result EXCEPT ![c] = add(left[1], right[1])]
    /\ pc' = [pc EXCEPT ![c] = "done"]
    /\ UNCHANGED <<overflow_checks, seq_vars, left, right>>

\* The call ends only once every caller has entered add.
Leave_after_all_entered(c) ==
    /\ pc[c] = "called"
    /\ \A d \in Callers : pc[d] # "idle"
    /\ result' = [result EXCEPT ![c] = add(left[c], right[c])]
    /\ pc' = [pc EXCEPT ![c] = "done"]
    /\ UNCHANGED <<overflow_checks, seq_vars, left, right>>

\* The body of add runs on the caller's own arguments and the call ends.
Leave(c) ==
    /\ pc[c] = "called"
    /\ result' = [result EXCEPT ![c] = add(left[c], right[c])]
    /\ pc' = [pc EXCEPT ![c] = "done"]
    /\ UNCHANGED <<overflow_checks, seq_vars, left, right>>

----------------------------------------------------------------------------
\* Specifications

SeqIdle ==
    /\ got = [k \in Calls |-> Pending]
    /\ it_works = "not_run"

ConcIdle ==
    /\ pc = [c \in Callers |-> "idle"]
    /\ left = [c \in Callers |-> Zero]
    /\ right = [c \in Callers |-> Zero]
    /\ result = [c \in Callers |-> Pending]

\* One sequential caller, any inputs, either build.
Init ==
    /\ overflow_checks \in BOOLEAN
    /\ x \in Inputs
    /\ y \in Inputs
    /\ z \in Inputs
    /\ SeqIdle
    /\ ConcIdle

Next ==
    \/ \E k \in Calls : Call(k)
    \/ ItWorks

Spec == Init /\ [][Next]_vars

\* Concurrent callers, either build.
ConcInit ==
    /\ overflow_checks \in BOOLEAN
    /\ x = Zero
    /\ y = Zero
    /\ z = Zero
    /\ SeqIdle
    /\ ConcIdle

ConcNext ==
    \/ \E c \in Callers : \E l \in CallerInputs : \E r \in CallerInputs : Enter(c, l, r)
    \/ \E c \in Callers : Leave(c)

ConcSpec == ConcInit /\ [][ConcNext]_vars

\* add is straight-line code: a caller that has entered it is scheduled
\* until it leaves.
FairConcSpec == ConcSpec /\ \A c \in Callers : WF_vars(Leave(c))

----------------------------------------------------------------------------
\* Reference arithmetic for the properties.  A u64 near 0, near 2^63 or near
\* 2^64 is named by the pair <<m, k>> that stands for the integer
\* m * 2^63 + k, with |k| far below 2^63, so that pairs are equal exactly when
\* the integers are; sums of pairs are exact integer sums.

Upper(v, mid, top) ==
    /\ \A i \in 2..(Limbs - 1) : v[i] = mid
    /\ v[Limbs] = top

Num(v) ==
    CASE Upper(v, 0, 0)                       -> <<0, v[1]>>
      [] Upper(v, Base - 1, Base \div 2 - 1)  -> <<1, v[1] - Base>>
      [] Upper(v, 0, Base \div 2)             -> <<1, v[1]>>
      [] Upper(v, Base - 1, Base - 1)         -> <<2, v[1] - Base>>
      [] OTHER                                -> <<-1, 0>>

Plus(m, n) == <<m[1] + n[1], m[2] + n[2]>>

\* The integer exceeds u64::MAX = 2^64 - 1.
ExceedsMax(n) == n[1] >= 3 \/ (n[1] = 2 /\ n[2] >= 0)

\* The integer reduced by 2^64.
Wrapped(n) == <<n[1] - 2, n[2]>>

\* The sequential caller's call k has entered add and ended.
Entered(k) ==
    /\ got[k].kind # "pending"
    /\ LeftArg(k).kind = "returned"
    /\ RightArg(k).kind = "returned"

L(k) == LeftArg(k).value

R(k) == RightArg(k).value

Sum(k) == Plus(Num(L(k)), Num(R(k)))

----------------------------------------------------------------------------
\* C1: whenever left + right does not exceed u64::MAX, add(left, right)
\* returns exactly left + right; in particular add(2, 2) == 4, so the unit
\* test it_works ends Ok.
C1_ExactSum ==
    /\ \A k \in Calls :
         (Entered(k) /\ ~ExceedsMax(Sum(k)))
            => /\ got[k].kind = "returned"
               /\ Num(got[k].value) = Sum(k)
    /\ \A k \in Calls :
         (Entered(k) /\ L(k) = FromNat(2) /\ R(k) = FromNat(2))
            => got[k] = Returned(FromNat(4))
    /\ it_works \in {"not_run", "Ok"}

\* add(MAX - 2, 2) has returned MAX and the unit test has passed.
C1_Witness ==
    /\ x = BelowMax(2)
    /\ y = FromNat(2)
    /\ got["xy"] = Returned(MAX)
    /\ it_works = "Ok"

\* C2: add(MAX, 1) ends in one of three ways: it returns 0, it returns MAX,
\* or it fails with an arithmetic overflow; nothing else.
C2_MaxPlusOne ==
    \A k \in Calls :
        (Entered(k) /\ L(k) = MAX /\ R(k) = FromNat(1))
            => got[k] \in {Returned(Zero), Returned(MAX), Panicked}

\* add(MAX, 1) has wrapped to 0.
C2_Witness ==
    /\ x = MAX
    /\ y = FromNat(1)
    /\ got["xy"] = Returned(Zero)

\* C3 as stated: every call of add ends by returning a value, never in a
\* failure.
C3_NeverFails ==
    \A k \in Calls : Entered(k) => got[k].kind = "returned"

\* C3 as amended: a call of add returns a u64 value, and fails only where the
\* sum exceeds u64::MAX in a build with overflow checks on, where it panics.
C3_FailsOnlyOnCheckedOverflow ==
    \A k \in Calls :
        Entered(k) =>
            IF overflow_checks /\ ExceedsMax(Sum(k))
            THEN got[k] = Panicked
            ELSE got[k].kind = "returned" /\ got[k].value \in U64

\* An overflowing call has returned a value in a build without overflow checks.
C3_Witness ==
    /\ ~overflow_checks
    /\ x = BelowMax(1)
    /\ y = FromNat(2)
    /\ got["xy"].kind = "returned"

\* C4: zero is a right identity, add(x, 0) == x, for every x up to and
\* including u64::MAX, and such a call never overflows.
C4_ZeroIdentity ==
    \A k \in Calls :
        (Entered(k) /\ R(k) = Zero) => got[k] = Returned(L(k))

\* add(MAX, 0) has returned MAX in a build with overflow checks on.
C4_Witness ==
    /\ overflow_checks
    /\ x = MAX
    /\ y = Zero
    /\ got["xy"] = Returned(MAX)

\* C5: when left + right does not exceed u64::MAX, add(left, right) and
\* add(right, left) return the same value.
C5_Commutative ==
    (Entered("xy") /\ Entered("yx") /\ ~ExceedsMax(Sum("xy")))
        => /\ got["xy"].kind = "returned"
           /\ got["yx"] = got["xy"]

\* add(1, MAX - 2) and add(MAX - 2, 1) have both returned MAX - 1.
C5_Witness ==
    /\ x = FromNat(1)
    /\ y = BelowMax(2)
    /\ got["xy"] = Returned(BelowMax(1))
    /\ got["yx"] = Returned(BelowMax(1))

\* C7: when left + right exceeds u64::MAX the build alone decides: with
\* overflow checks on the call panics and returns nothing, with them off it
\* returns (left + right) mod 2^64; it never saturates to u64::MAX.
C7_OverflowByBuild ==
    \A k \in Calls :
        (Entered(k) /\ ExceedsMax(Sum(k)))
            => /\ overflow_checks => got[k] = Panicked
               /\ ~overflow_checks =>
                     /\ got[k].kind = "returned"
                     /\ Num(got[k].value) = Wrapped(Sum(k))
               /\ got[k] # Returned(MAX)

\* add(MAX, MAX) has returned MAX - 1 in a build without overflow checks.
C7_Witness ==
    /\ ~overflow_checks
    /\ x = MAX
    /\ y = MAX
    /\ got["xy"] = Returned(BelowMax(1))

\* C9: when x + y + z does not exceed u64::MAX, add(add(x, y), z) and
\* add(x, add(y, z)) return the same value and no call in either nesting
\* overflows.
C9_Associative ==
    (/\ got["xy_z"].kind # "pending"
     /\ got["x_yz"].kind # "pending"
     /\ ~ExceedsMax(Plus(Plus(Num(x), Num(y)), Num(z))))
        => /\ got["xy"].kind = "returned"
           /\ got["yz"].kind = "returned"
           /\ got["xy_z"].kind = "returned"
           /\ got["x_yz"] = got["xy_z"]
           /\ Num(got["xy_z"].value) = Plus(Plus(Num(x), Num(y)), Num(z))

\* Both nestings of (MAX - 2) + 1 + 1 have returned MAX.
C9_Witness ==
    /\ x = BelowMax(2)
    /\ y = FromNat(1)
    /\ z = FromNat(1)
    /\ got["xy_z"] = Returned(MAX)
    /\ got["x_yz"] = Returned(MAX)

----------------------------------------------------------------------------
\* The outcome add(l, r) has when it is the only call there is.
Alone(o, l, r) ==
    LET n == Plus(Num(l), Num(r))
    IN  IF ~ExceedsMax(n) THEN o.kind = "returned" /\ Num(o.value) = n
        ELSE IF overflow_checks THEN o = Panicked
        ELSE o.kind = "returned" /\ Num(o.value) = Wrapped(n)

Frame(c) == <<pc[c], left[c], right[c], result[c]>>

\* C6: concurrent calls are independent: in any interleaving a step belongs
\* to one caller and leaves every other caller's arguments and outcome as
\* they were, and a call ends with the outcome the same call has alone.
C6_Independent ==
    [][\A c \in Callers :
          Frame(c)' # Frame(c) =>
             /\ \A d \in Callers \ {c} : Frame(d)' = Frame(d)
             /\ pc'[c] = "done" => Alone(result'[c], left[c], right[c])]_vars

\* Caller 2 has returned 0 from add(0, 0) while caller 1 is inside
\* add(MAX, MAX).
C6_Witness ==
    /\ pc[1] = "called"
    /\ left[1] = MAX
    /\ right[1] = MAX
    /\ pc[2] = "done"
    /\ left[2] = Zero
    /\ right[2] = Zero
    /\ result[2] = Returned(Zero)

\* C8: a call of add that has been entered always ends, and it is able to
\* end whatever the other callers are doing: it waits for nothing.
C8_Completes ==
    /\ \A c \in Callers : (pc[c] = "called") ~> (pc[c] = "done")
    /\ [](\A c \in Callers : pc[c] = "called" => ENABLED Leave(c))

\* Caller 1 has ended its call while caller 2 has not yet made one.
C8_Witness ==
    /\ pc[1] = "done"
    /\ result[1] # Pending
    /\ pc[2] = "idle"

====
